---- MODULE Spec2Model ----
(***************************************************************************)
(* MADRS virtual-patient profile generators.                               *)
(*                                                                         *)
(*   generate_from_matrix              (generate_profiles_borentain.py)    *)
(*   FactorBasedMADRSGenerator.generate    (generate_profiles_hopkins.py)  *)
(*   HierarchicalMADRSGenerator.generate_profile                           *)
(*                                  (generate_profiles_hopkins_latent.py)  *)
(*                                                                         *)
(* Real numbers are fixed-point integers in units of 1/Unit.  Gaussian     *)
(* draws are nondeterministic choices from bounded sets; a weighted random *)
(* choice is an inverse-CDF lookup of a bounded uniform draw.              *)
(***************************************************************************)
EXTENDS Integers, Sequences, FiniteSets, TLC

VARIABLES
    sampler,        \* which entry point is running: "idle", "matrix", "flat", "hier", "rules"
    pc,             \* position inside the running entry point
    target_score,   \* the argument target_score
    probs,          \* matrix/flat: unnormalised positive weight of every slot
    scores,         \* matrix/flat: final_scores / scores, by slot
    points,         \* matrix/flat: remaining_points / points_to_assign
    assigned,       \* matrix/flat: number of single-unit assignments made so far
    factor_scores,  \* hier: the four latent factor scores
    continuous,     \* hier: sampled continuous value of every item (fixed point)
    discrete,       \* hier: rounded and clamped score of every item
    current_sum,    \* hier: current_sum of the adjustment loop
    iter,           \* hier: iterations of the adjustment loop started so far
    rules_in,       \* hier: the scores handed to _apply_madrs_rules
    result,         \* what the call returned
    mode,           \* random stream: "free", "record" (after seeding) or "replay" (after re-seeding)
    stream,         \* the draws the running call has consumed (kept unless mode is "free")
    replay,         \* the draws the re-seeded stream will produce, in order
    first,          \* target, result and consumed draws of the call made before re-seeding
    hier_self,      \* the fields of the HierarchicalMADRSGenerator instance
    flat_self,      \* the fields of the FactorBasedMADRSGenerator instance
    factor_cov,     \* hier: the covariance matrix handed to the factor draw
    profiles,       \* what the calls completed so far returned, as the caller holds it
    row,            \* the persisted profile record handed to the violation checker
    violations      \* the list the violation checker returned

vars == << sampler, pc, target_score, probs, scores, points, assigned,
           factor_scores, continuous, discrete, current_sum, iter, rules_in, result,
           mode, stream, replay, first,
           hier_self, flat_self, factor_cov, profiles, row, violations >>

allocVars == << probs, scores, points, assigned >>
hierVars == << factor_scores, continuous, discrete, current_sum, iter, rules_in, factor_cov >>
rngVars == << mode, stream, replay >>
cfgVars == << hier_self, flat_self >>
checkVars == << row, violations >>

----------------------------------------------------------------------------
(* Bounds of the model *)

\* targets below the valid range that are tried: -BelowRange .. -1
BelowRange == 5
\* largest target tried (the valid range of the hierarchical sampler ends at 60)
MaxTarget == 62
\* magnitude of a latent factor's deviation from its mean, in 1/Unit
FactorDev == 180
\* magnitude of an item's residual noise, in 1/Unit
ResidDev == 210
\* largest value of the four items no clinical rule reads, in a rule-pass input
MaxFill == 1
\* largest target of a call that is repeated from a re-seeded stream
MaxReplayTarget == 6
\* how far off the 0..6 scale an item of a checked record can be
OffScale == 1
\* how far the recorded target of a checked record can be from its total
TargetSlack == 1

----------------------------------------------------------------------------
(* Fixed configuration *)

\* fixed-point denominator: target/10.0, the offsets and the factor means are
\* all whole multiples of 1/60
Unit == 60

\* per-item ceiling and floor of the scale
Ceiling == 6
Floor == 0

\* range(100) of the adjustment loop
AdjustCap == 100

MinValidTarget == 0
MaxValidTarget == 60

item_keys ==
    << "REPORTED_SADNESS", "APPARENT_SADNESS", "INNER_TENSION",
       "REDUCED_SLEEP", "REDUCED_APPETITE", "CONCENTRATION_DIFFICULTIES",
       "LASSITUDE", "INABILITY_TO_FEEL", "PESSIMISTIC_THOUGHTS", "SUICIDAL_THOUGHTS" >>

Items == { item_keys[i] : i \in 1..Len(item_keys) }

item_to_factor ==
    [ k \in Items |->
        CASE k \in {"REPORTED_SADNESS", "APPARENT_SADNESS"} -> 0
          [] k \in {"INNER_TENSION", "REDUCED_SLEEP", "REDUCED_APPETITE"} -> 1
          [] k \in {"CONCENTRATION_DIFFICULTIES", "LASSITUDE", "INABILITY_TO_FEEL"} -> 2
          [] OTHER -> 3 ]

Factors == 0..3

\* item_offsets, in 1/Unit: 2, 0, 0.0, 0.0, -0.2, 0.0, 0.0, -0.5, -0.5, -2.0
item_offsets ==
    [ k \in Items |->
        CASE k = "REPORTED_SADNESS" -> 2 * Unit
          [] k = "REDUCED_APPETITE" -> -(Unit \div 5)
          [] k = "INABILITY_TO_FEEL" -> -(Unit \div 2)
          [] k = "PESSIMISTIC_THOUGHTS" -> -(Unit \div 2)
          [] k = "SUICIDAL_THOUGHTS" -> -(2 * Unit)
          [] OTHER -> 0 ]

ZeroProfile == [ k \in Items |-> 0 ]

\* no record has been handed to the violation checker
NoRow == [ k \in Items \cup { "target_score" } |-> -Unit ]

\* denominator of a correlation: 0.6 is 60, 1.00 is 100
CorrUnit == 100

\* self.base_factor_corr: 1.00 on the diagonal, 0.6 everywhere else
base_factor_corr ==
    [ i \in Factors |-> [ j \in Factors |-> IF i = j THEN CorrUnit ELSE 60 ] ]

\* self.item_residual_sd: 0.5 for every item, in 1/Unit
item_residual_sd == [ k \in Items |-> Unit \div 2 ]

\* the fields HierarchicalMADRSGenerator.__init__ sets
HierarchicalMADRSGenerator ==
    [ item_to_factor |-> item_to_factor,
      base_factor_corr |-> base_factor_corr,
      item_residual_sd |-> item_residual_sd,
      item_offsets |-> item_offsets ]

\* self.loadings, in 1/CorrUnit, in the order the dict was written
loadings ==
    << [ factor |-> "SADNESS",
         of |-> << << "APPARENT_SADNESS", 79 >>, << "REPORTED_SADNESS", 74 >> >> ],
       [ factor |-> "NEUROVEG",
         of |-> << << "INNER_TENSION", 37 >>, << "REDUCED_SLEEP", 36 >>,
                   << "REDUCED_APPETITE", 42 >> >> ],
       [ factor |-> "DETACH",
         of |-> << << "CONCENTRATION_DIFFICULTIES", 52 >>, << "LASSITUDE", 61 >>,
                   << "INABILITY_TO_FEEL", 64 >> >> ],
       [ factor |-> "NEG_THOUGHT",
         of |-> << << "PESSIMISTIC_THOUGHTS", 79 >>, << "SUICIDAL_THOUGHTS", 29 >> >> ] >>

\* self.factor_corr of the flat sampler, in 1/CorrUnit
factor_corr ==
    << << 100, 83, 69, 38 >>,
       << 83, 100, 88, 57 >>,
       << 69, 88, 100, 62 >>,
       << 38, 57, 62, 100 >> >>

\* the fields FactorBasedMADRSGenerator.__init__ sets
FactorBasedMADRSGenerator ==
    [ loadings |-> loadings,
      factor_names |-> << "SADNESS", "NEUROVEG", "DETACH", "NEG_THOUGHT" >>,
      factor_corr |-> factor_corr ]

----------------------------------------------------------------------------
(* Arithmetic helpers *)

Min2(a, b) == IF a <= b THEN a ELSE b
Max2(a, b) == IF a >= b THEN a ELSE b

RECURSIVE SumSeq(_)
SumSeq(s) == IF s = << >> THEN 0 ELSE Head(s) + SumSeq(Tail(s))

\* sum(discrete.values())
SumItems(d) == SumSeq([ i \in 1..Len(item_keys) |-> d[item_keys[i]] ])

\* int(round(x)) for a fixed-point x: round half to even
RoundHalfEven(x) ==
    LET q == x \div Unit
        r == x % Unit
    IN  IF 2 * r < Unit THEN q
        ELSE IF 2 * r > Unit THEN q + 1
        ELSE IF q % 2 = 0 THEN q ELSE q + 1

\* faulty variant: the upper clamp is missing
Discretize_NoCeiling(x) == Max2(Floor, RoundHalfEven(x))

\* max(0, min(6, int(round(sampled))))
Discretize(x) == Max2(Floor, Min2(Ceiling, RoundHalfEven(x)))

----------------------------------------------------------------------------
(* The process-wide random stream *)

\* One draw d leaves the stream.  A seeded stream is recorded; a re-seeded one
\* yields the recorded draws again, in the same order.
Consume(d) ==
    /\ (mode = "replay" /\ replay # << >>) => d = Head(replay)
    /\ replay' = IF mode = "replay" /\ replay # << >> THEN Tail(replay) ELSE replay
    /\ stream' = IF mode = "free" THEN stream ELSE Append(stream, d)
    /\ mode' = mode

\* A re-seeded run repeats the recorded call: same entry point, same target.
SameCall(name, t) == mode = "replay" => (first.sampler = name /\ first.target = t)

Pending == [ kind |-> "pending", profile |-> ZeroProfile ]
None == [ kind |-> "none", profile |-> ZeroProfile ]
Returned(p) == [ kind |-> "profile", profile |-> p ]

----------------------------------------------------------------------------
(* HierarchicalMADRSGenerator *)

\* faulty variant: the gate caps suicidal thoughts only
MoodGate_NoPessimism(s) ==
    IF s["REPORTED_SADNESS"] <= 1 /\ s["SUICIDAL_THOUGHTS"] > 2
    THEN [ s EXCEPT !["SUICIDAL_THOUGHTS"] = 1 ]
    ELSE s

\* faulty variant: suicidal thoughts are reset to 0
MoodGate_ToZero(s) ==
    IF s["REPORTED_SADNESS"] <= 1
    THEN LET s1 == IF s["SUICIDAL_THOUGHTS"] > 2
                   THEN [ s EXCEPT !["SUICIDAL_THOUGHTS"] = 0 ] ELSE s
         IN  IF s1["PESSIMISTIC_THOUGHTS"] > 2
             THEN [ s1 EXCEPT !["PESSIMISTIC_THOUGHTS"] = 2 ] ELSE s1
    ELSE s

\* Core Mood Gate
MoodGate(s) ==
    IF s["REPORTED_SADNESS"] <= 1
    THEN LET s1 == IF s["SUICIDAL_THOUGHTS"] > 2
                   THEN [ s EXCEPT !["SUICIDAL_THOUGHTS"] = 1 ] ELSE s
         IN  IF s1["PESSIMISTIC_THOUGHTS"] > 2
             THEN [ s1 EXCEPT !["PESSIMISTIC_THOUGHTS"] = 2 ] ELSE s1
    ELSE s

\* faulty variant: the link lowers inability to feel instead
AnhedoniaLink_LowersFeeling(s) ==
    IF s["INABILITY_TO_FEEL"] >= 4 /\ s["REPORTED_SADNESS"] < 2
    THEN [ s EXCEPT !["INABILITY_TO_FEEL"] = 3 ]
    ELSE s

\* faulty variant: the link raises reported sadness by one step
AnhedoniaLink_Increment(s) ==
    IF s["INABILITY_TO_FEEL"] >= 4 /\ s["REPORTED_SADNESS"] < 2
    THEN [ s EXCEPT !["REPORTED_SADNESS"] = @ + 1 ]
    ELSE s

\* Anhedonia Link
AnhedoniaLink(s) ==
    IF s["INABILITY_TO_FEEL"] >= 4 /\ s["REPORTED_SADNESS"] < 2
    THEN [ s EXCEPT !["REPORTED_SADNESS"] = 3 ]
    ELSE s

\* faulty variant: the link writes reported sadness instead of reduced sleep
TensionSleepLink_WrongKey(s) ==
    IF s["INNER_TENSION"] >= 4 /\ s["REDUCED_SLEEP"] = 0
    THEN [ s EXCEPT !["REPORTED_SADNESS"] = 2 ]
    ELSE s

\* Tension and Sleep Link
TensionSleepLink(s) ==
    IF s["INNER_TENSION"] >= 4 /\ s["REDUCED_SLEEP"] = 0
    THEN [ s EXCEPT !["REDUCED_SLEEP"] = 2 ]
    ELSE s

\* _apply_madrs_rules(scores)
apply_madrs_rules(s) ==
    IF "REPORTED_SADNESS" \in DOMAIN s
    THEN TensionSleepLink(AnhedoniaLink(MoodGate(s)))
    ELSE s

\* items_in_f = [k for k, v in self.item_to_factor.items() if v == f_idx]
items_in_f(f) == SelectSeq(item_keys, LAMBDA k : hier_self.item_to_factor[k] = f)

\* base_per_item = target_score / 10.0
base_per_item(t) == (t * Unit) \div 10

\* f_mean = ((base_per_item * len(items_in_f)) - f_offset_sum) / len(items_in_f)
factor_mean(f, t) ==
    LET its == items_in_f(f)
        n == Len(its)
        f_offset_sum == SumSeq([ i \in 1..n |-> hier_self.item_offsets[its[i]] ])
    IN  ((base_per_item(t) * n) - f_offset_sum) \div n

\* target_score / 30.0 reaches 1.0 at this target
FullSeverity == 30

\* scale = min(1.0, target_score / 30.0), as a numerator over FullSeverity
scale(t) == Min2(FullSeverity, t)

\* faulty variant: the loop scales the base matrix itself, not a copy
severity_scaled_cov_NoCopy(base, t) ==
    LET cov == [ i \in Factors |-> [ j \in Factors |->
                   IF i # j THEN (base[i][j] * scale(t)) \div FullSeverity ELSE base[i][j] ] ]
    IN  [ cov |-> cov, base |-> cov ]

\* faulty variant: every entry is scaled, the diagonal too
severity_scaled_cov_AllEntries(base, t) ==
    [ cov |-> [ i \in Factors |-> [ j \in Factors |->
                  (base[i][j] * scale(t)) \div FullSeverity ] ],
      base |-> base ]

\* _severity_scaled_cov(target_score): cov is the matrix returned, base is
\* self.base_factor_corr as the call leaves it (the loop writes a copy)
severity_scaled_cov(base, t) ==
    [ cov |-> [ i \in Factors |-> [ j \in Factors |->
                  IF i # j THEN (base[i][j] * scale(t)) \div FullSeverity ELSE base[i][j] ] ],
      base |-> base ]

\* faulty variant: the lower end of the range is not checked
ValidTarget_NoLower(t) == t <= MaxValidTarget

\* 0 <= target_score <= 60
ValidTarget(t) == MinValidTarget <= t /\ t <= MaxValidTarget

\* faulty variant: among equal keys the last candidate wins
ArgMaxFirst_LastOfTies(cands, key) ==
    LET i == CHOOSE i \in 1..Len(cands) :
                 /\ \A j \in 1..Len(cands) : key[cands[j]] <= key[cands[i]]
                 /\ \A j \in (i + 1)..Len(cands) : key[cands[j]] < key[cands[i]]
    IN  cands[i]

\* max(cands, key=...): the first candidate, in the order of cands, whose key is largest
ArgMaxFirst(cands, key) ==
    LET i == CHOOSE i \in 1..Len(cands) :
                 /\ \A j \in 1..Len(cands) : key[cands[j]] <= key[cands[i]]
                 /\ \A j \in 1..(i - 1) : key[cands[j]] < key[cands[i]]
    IN  cands[i]

\* cands = [k for k in self.item_keys if discrete[k] < 6]
CandsUp(d) == SelectSeq(item_keys, LAMBDA k : d[k] < Ceiling)

\* cands = [k for k in self.item_keys if discrete[k] > 0]
CandsDown(d) == SelectSeq(item_keys, LAMBDA k : d[k] > Floor)

\* best = max(cands, key=lambda k: continuous[k] - discrete[k])
BestUp(c, d) == ArgMaxFirst(CandsUp(d), [ k \in Items |-> c[k] - d[k] * Unit ])

\* best = max(cands, key=lambda k: discrete[k] - continuous[k])
BestDown(c, d) == ArgMaxFirst(CandsDown(d), [ k \in Items |-> d[k] * Unit - c[k] ])

\* faulty variant: the two branches are swapped
AdjustOnce_Swapped(c, d, cur, t) ==
    IF cur > t /\ CandsUp(d) # << >>
    THEN [ d EXCEPT ![BestUp(c, d)] = @ + 1 ]
    ELSE IF CandsDown(d) # << >>
    THEN [ d EXCEPT ![BestDown(c, d)] = @ - 1 ]
    ELSE d

\* one pass through the body of the adjustment loop, when it does not break
AdjustOnce(c, d, cur, t) ==
    IF cur < t
    THEN [ d EXCEPT ![BestUp(c, d)] = @ + 1 ]
    ELSE [ d EXCEPT ![BestDown(c, d)] = @ - 1 ]

\* faulty variant: the loop also breaks when the sum is above the target
AdjustBreaks_AtOrAbove(d, cur, t) ==
    \/ cur >= t
    \/ cur < t /\ CandsUp(d) = << >>

\* the loop body breaks: the sum is on target, or no candidate is left
AdjustBreaks(d, cur, t) ==
    \/ cur = t
    \/ cur < t /\ CandsUp(d) = << >>
    \/ cur > t /\ CandsDown(d) = << >>

\* deviations of the four latent factors from their means that the model
\* draws: at most two factors deviate, each by FactorDev up or down
FactorDraws ==
    { z \in [ Factors -> { -FactorDev, 0, FactorDev } ] :
        Cardinality({ f \in Factors : z[f] # 0 }) <= 2 }

\* residual noise of the ten items: at most one item deviates from its mean
ResidDraws ==
    { [ k \in Items |-> 0 ] } \cup
    { [ k \in Items |-> IF k = n THEN e ELSE 0 ] : n \in Items, e \in { -ResidDev, ResidDev } }

Targets == (-BelowRange)..MaxTarget

\* generate_profile(target_score): the range check and the factor means
CallGenerateProfile(t) ==
    /\ pc = "idle"
    /\ SameCall("hier", t)
    /\ sampler' = "hier"
    /\ target_score' = t
    /\ IF ~ValidTarget(t)
       THEN /\ result' = None
            /\ pc' = "done"
       ELSE /\ result' = Pending
            /\ pc' = "draw_factors"
    /\ UNCHANGED << allocVars, hierVars, rngVars, first,
                    cfgVars, profiles, checkVars >>

\* factor_cov = self._severity_scaled_cov(target_score)
\* factor_scores = np.random.multivariate_normal(factor_means, factor_cov)
DrawFactors ==
    /\ sampler = "hier" /\ pc = "draw_factors"
    /\ LET scaled == severity_scaled_cov(hier_self.base_factor_corr, target_score)
       IN  /\ factor_cov' = scaled.cov
           /\ hier_self' = [ hier_self EXCEPT !.base_factor_corr = scaled.base ]
    /\ \E z \in FactorDraws :
          /\ Consume(z)
          /\ factor_scores' = [ f \in Factors |-> factor_mean(f, target_score) + z[f] ]
    /\ pc' = "draw_items"
    /\ UNCHANGED << sampler, target_score, allocVars, continuous, discrete,
                    current_sum, iter, rules_in, result, first,
                    flat_self, profiles, checkVars >>

\* the loop over item_keys: sampled, continuous[item], discrete[item]; then current_sum
DrawItems ==
    /\ sampler = "hier" /\ pc = "draw_items"
    /\ \E e \in ResidDraws :
          /\ Consume(e)
          /\ continuous' = [ k \in Items |->
                               factor_scores[hier_self.item_to_factor[k]]
                               + hier_self.item_offsets[k] + e[k] ]
    /\ discrete' = [ k \in Items |-> Discretize(continuous'[k]) ]
    /\ current_sum' = SumItems(discrete')
    /\ iter' = 0
    /\ pc' = "adjust"
    /\ UNCHANGED << sampler, target_score, allocVars, factor_scores, rules_in, result, first,
                    factor_cov, cfgVars, profiles, checkVars >>

\* one iteration of "for _ in range(100)" that reaches its last line
AdjustStep ==
    /\ sampler = "hier" /\ pc = "adjust"
    /\ iter < AdjustCap
    /\ ~AdjustBreaks(discrete, current_sum, target_score)
    /\ discrete' = AdjustOnce(continuous, discrete, current_sum, target_score)
    /\ current_sum' = SumItems(discrete')
    /\ iter' = iter + 1
    /\ UNCHANGED << sampler, pc, target_score, allocVars, factor_scores, continuous,
                    rules_in, result, rngVars, first,
                    factor_cov, cfgVars, profiles, checkVars >>

\* the loop ends: a break, or range(100) is used up
AdjustExit ==
    /\ sampler = "hier" /\ pc = "adjust"
    /\ (iter = AdjustCap \/ AdjustBreaks(discrete, current_sum, target_score))
    /\ pc' = "rules"
    /\ UNCHANGED << sampler, target_score, allocVars, hierVars, result, rngVars, first,
                    cfgVars, profiles, checkVars >>

\* discrete = self._apply_madrs_rules(discrete); return discrete
ApplyRulesAndReturn ==
    /\ sampler \in { "hier", "rules" } /\ pc = "rules"
    /\ rules_in' = discrete
    /\ discrete' = apply_madrs_rules(discrete)
    /\ result' = Returned(discrete')
    /\ pc' = "done"
    /\ UNCHANGED << sampler, target_score, allocVars, factor_scores, continuous,
                    current_sum, iter, rngVars, first,
                    factor_cov, cfgVars, profiles, checkVars >>

----------------------------------------------------------------------------
(* Weighted random choice: np.random.choice(valid_indices, p=p_sub) *)

\* slots of final_scores / items, in order (a ten-item matrix, ten loadings)
Slots == 1..Len(item_keys)

\* sum of the weights w over the slots listed in idxs
RECURSIVE WeightOf(_, _)
WeightOf(w, idxs) == IF idxs = << >> THEN 0 ELSE w[Head(idxs)] + WeightOf(w, Tail(idxs))

\* p_sub = probs[valid] / probs[valid].sum(), as numerator and common denominator
Renormalize(w, valid) ==
    [ num |-> [ j \in 1..Len(valid) |-> w[valid[j]] ], den |-> WeightOf(w, valid) ]

\* the element of valid that the uniform draw u/den selects: the first one whose
\* cumulative probability exceeds the draw
Choice(valid, p, u) ==
    LET j == CHOOSE j \in 1..Len(valid) :
                 /\ SumSeq(SubSeq(p.num, 1, j)) > u
                 /\ \A h \in 1..(j - 1) : SumSeq(SubSeq(p.num, 1, h)) <= u
    IN  valid[j]

\* the uniform draws the model hands to a choice with denominator den: the
\* smallest and the largest one
UniformDraws(den) == { 0, den - 1 }

\* strictly positive weights that exp() of a Gaussian sample can produce
ProbVectors ==
    { [ i \in Slots |-> 1 ],
      [ i \in Slots |-> IF i % 2 = 1 THEN 2 ELSE 1 ] }

\* the profile a sampler returns: labels[i] -> sc[i]
AsProfile(labels, sc) ==
    [ k \in Items |-> sc[CHOOSE i \in 1..Len(labels) : labels[i] = k] ]

----------------------------------------------------------------------------
(* generate_from_matrix *)

\* df.index: the row labels of the correlation matrix
df_index == item_keys

\* faulty variant: the ceiling is not respected
MatrixValid_NoCeiling(sc) == [ i \in Slots |-> i ]

\* valid_indices = np.where(final_scores < 6)[0]
MatrixValid(sc) == SelectSeq([ i \in Slots |-> i ], LAMBDA i : sc[i] < Ceiling)

\* raw_sample, exp_s, probs, final_scores = zeros, remaining_points = target_score
CallGenerateFromMatrix(t) ==
    /\ pc = "idle"
    /\ SameCall("matrix", t)
    /\ sampler' = "matrix"
    /\ target_score' = t
    /\ \E w \in ProbVectors :
          /\ Consume(w)
          /\ probs' = w
    /\ scores' = [ i \in Slots |-> 0 ]
    /\ points' = t
    /\ assigned' = 0
    /\ result' = Pending
    /\ pc' = "alloc"
    /\ UNCHANGED << hierVars, first,
                    cfgVars, profiles, checkVars >>

\* one pass through the body of "while remaining_points > 0" that assigns a point
MatrixAssign ==
    /\ sampler = "matrix" /\ pc = "alloc"
    /\ points > 0
    /\ MatrixValid(scores) # << >>
    /\ LET valid_indices == MatrixValid(scores)
           current_probs == Renormalize(probs, valid_indices)
       IN  \E u \in UniformDraws(current_probs.den) :
              /\ Consume(u)
              /\ scores' = [ scores EXCEPT ![Choice(valid_indices, current_probs, u)] = @ + 1 ]
    /\ points' = points - 1
    /\ assigned' = assigned + 1
    /\ UNCHANGED << sampler, pc, target_score, probs, hierVars, result, first,
                    cfgVars, profiles, checkVars >>

\* the loop ends (no point left, or every item at 6): return dict(zip(df.index, final_scores))
MatrixReturn ==
    /\ sampler = "matrix" /\ pc = "alloc"
    /\ (points <= 0 \/ MatrixValid(scores) = << >>)
    /\ result' = Returned(AsProfile(df_index, scores))
    /\ pc' = "done"
    /\ UNCHANGED << sampler, target_score, allocVars, hierVars, rngVars, first,
                    cfgVars, profiles, checkVars >>

----------------------------------------------------------------------------
(* FactorBasedMADRSGenerator.generate *)

\* the keys of propensities, in the order the two loops over self.loadings fill it
RECURSIVE propensity_keys(_)
propensity_keys(l) ==
    IF l = << >> THEN << >>
    ELSE [ i \in 1..Len(Head(l).of) |-> Head(l).of[i][1] ] \o propensity_keys(Tail(l))

\* items = list(propensities.keys())
items == propensity_keys(flat_self.loadings)

\* faulty variant: the ceiling is not respected
FlatValid_NoCeiling(sc) == [ i \in Slots |-> i ]

\* faulty variant: a slot at the ceiling still counts as valid
FlatValid_UpToCeiling(sc) == SelectSeq([ i \in Slots |-> i ], LAMBDA i : sc[i] <= Ceiling)

\* valid_indices = [i for i, item in enumerate(items) if scores[item] < 6]
FlatValid(sc) == SelectSeq([ i \in Slots |-> i ], LAMBDA i : sc[i] < Ceiling)

\* faulty variant: the scores of the previous call are kept
CallGenerate_KeepScores(t) ==
    /\ pc = "idle"
    /\ SameCall("flat", t)
    /\ sampler' = "flat"
    /\ target_score' = t
    /\ \E w \in ProbVectors :
          /\ Consume(w)
          /\ probs' = w
    /\ scores' = scores
    /\ points' = t
    /\ assigned' = 0
    /\ result' = Pending
    /\ pc' = "alloc"
    /\ UNCHANGED << hierVars, first,
                    cfgVars, profiles, checkVars >>

\* latent_values, propensities, probs, scores = 0 everywhere, points_to_assign = target_score
CallGenerate(t) ==
    /\ pc = "idle"
    /\ SameCall("flat", t)
    /\ sampler' = "flat"
    /\ target_score' = t
    /\ \E w \in ProbVectors :
          /\ Consume(w)
          /\ probs' = w
    /\ scores' = [ i \in Slots |-> 0 ]
    /\ points' = t
    /\ assigned' = 0
    /\ result' = Pending
    /\ pc' = "alloc"
    /\ UNCHANGED << hierVars, first,
                    cfgVars, profiles, checkVars >>

\* one pass through the body of "while points_to_assign > 0" that assigns a point
FlatAssign ==
    /\ sampler = "flat" /\ pc = "alloc"
    /\ points > 0
    /\ FlatValid(scores) # << >>
    /\ LET valid_indices == FlatValid(scores)
           p_sub == Renormalize(probs, valid_indices)
       IN  \E u \in UniformDraws(p_sub.den) :
              /\ Consume(u)
              /\ scores' = [ scores EXCEPT ![Choice(valid_indices, p_sub, u)] = @ + 1 ]
    /\ points' = points - 1
    /\ assigned' = assigned + 1
    /\ UNCHANGED << sampler, pc, target_score, probs, hierVars, result, first,
                    cfgVars, profiles, checkVars >>

\* the loop ends (no point left, or every item at 6): return scores
FlatReturn ==
    /\ sampler = "flat" /\ pc = "alloc"
    /\ (points <= 0 \/ FlatValid(scores) = << >>)
    /\ result' = Returned(AsProfile(items, scores))
    /\ pc' = "done"
    /\ UNCHANGED << sampler, target_score, allocVars, hierVars, rngVars, first,
                    cfgVars, profiles, checkVars >>

----------------------------------------------------------------------------
(* check_profile_violations.py: the violation checker *)

\* ITEM_COLS
ITEM_COLS ==
    << "REPORTED_SADNESS", "APPARENT_SADNESS", "INNER_TENSION",
       "REDUCED_SLEEP", "REDUCED_APPETITE", "CONCENTRATION_DIFFICULTIES",
       "LASSITUDE", "INABILITY_TO_FEEL", "PESSIMISTIC_THOUGHTS", "SUICIDAL_THOUGHTS" >>

\* int(x) of a fixed-point number: truncation toward zero
int(x) == IF x >= 0 THEN x \div Unit ELSE -((-x) \div Unit)

\* the record save_profiles persists for a profile: every number as written
\* to the file, in 1/Unit
PersistedRow(p, t) ==
    [ k \in Items \cup { "target_score" } |->
        IF k = "target_score" THEN t * Unit ELSE p[k] * Unit ]

\* s = {k: int(row[k]) for k in ITEM_COLS}
ItemsOfRow(r) ==
    [ k \in { ITEM_COLS[i] : i \in 1..Len(ITEM_COLS) } |-> int(r[k]) ]

\* violations.append({...}) when the condition holds; the detail text is left out
Violation(cond, type, rule) ==
    IF cond THEN << [ rule_type |-> type, rule |-> rule ] >> ELSE << >>

\* faulty variant: the suicidal-thoughts predicate uses the threshold 1
check_clinical_rules_Drifted(r) ==
    LET s == ItemsOfRow(r)
    IN  Violation(s["REPORTED_SADNESS"] <= 1 /\ s["SUICIDAL_THOUGHTS"] > 1,
                  "clinical", "mood_gate_suicidal")
        \o Violation(s["REPORTED_SADNESS"] <= 1 /\ s["PESSIMISTIC_THOUGHTS"] > 2,
                     "clinical", "mood_gate_pessimism")
        \o Violation(s["INABILITY_TO_FEEL"] >= 4 /\ s["REPORTED_SADNESS"] < 2,
                     "clinical", "anhedonia_requires_sadness")
        \o Violation(s["INNER_TENSION"] >= 4 /\ s["REDUCED_SLEEP"] = 0,
                     "clinical", "tension_requires_sleep_disturbance")

\* check_clinical_rules(row)
check_clinical_rules(r) ==
    LET s == ItemsOfRow(r)
    IN  Violation(s["REPORTED_SADNESS"] <= 1 /\ s["SUICIDAL_THOUGHTS"] > 2,
                  "clinical", "mood_gate_suicidal")
        \o Violation(s["REPORTED_SADNESS"] <= 1 /\ s["PESSIMISTIC_THOUGHTS"] > 2,
                     "clinical", "mood_gate_pessimism")
        \o Violation(s["INABILITY_TO_FEEL"] >= 4 /\ s["REPORTED_SADNESS"] < 2,
                     "clinical", "anhedonia_requires_sadness")
        \o Violation(s["INNER_TENSION"] >= 4 /\ s["REDUCED_SLEEP"] = 0,
                     "clinical", "tension_requires_sleep_disturbance")

\* the loop "for item in ITEM_COLS" of the range rule, over the columns cols
RECURSIVE RangeViolations(_, _)
RangeViolations(s, cols) ==
    IF cols = << >> THEN << >>
    ELSE Violation(s[Head(cols)] < 0 \/ s[Head(cols)] > 6, "generating", "item_range_0_to_6")
         \o RangeViolations(s, Tail(cols))

\* max_suicide
max_suicide(rs) ==
    IF rs <= 1 THEN 1
    ELSE IF rs <= 3 THEN Min2(3, rs + 1)
    ELSE 6

\* faulty variant: the total is not compared with the target
check_generating_rules_NoTotal(r) ==
    LET s == ItemsOfRow(r)
        rs == s["REPORTED_SADNESS"]
    IN  Violation(Max2(s["APPARENT_SADNESS"] - rs, rs - s["APPARENT_SADNESS"]) > 1,
                  "generating", "apparent_sadness_within_1_of_reported")
        \o (IF rs = 0
            THEN Violation(s["SUICIDAL_THOUGHTS"] > 0,
                           "generating", "suicidal_zero_when_no_sadness")
            ELSE Violation(s["SUICIDAL_THOUGHTS"] > max_suicide(rs),
                           "generating", "suicidal_thoughts_bounded_by_sadness"))
        \o (IF rs = 0
            THEN Violation(s["PESSIMISTIC_THOUGHTS"] > 0,
                           "generating", "pessimism_zero_when_no_sadness")
            ELSE Violation(s["PESSIMISTIC_THOUGHTS"] > Min2(6, rs + 2),
                           "generating", "pessimistic_thoughts_bounded_by_sadness"))
        \o (IF rs > 0
            THEN Violation(s["INABILITY_TO_FEEL"] < rs \div 2,
                           "generating", "anhedonia_floor_by_sadness")
            ELSE << >>)
        \o RangeViolations(s, ITEM_COLS)

\* check_generating_rules(row)
check_generating_rules(r) ==
    LET s == ItemsOfRow(r)
        rs == s["REPORTED_SADNESS"]
        actual == SumSeq([ i \in 1..Len(ITEM_COLS) |-> s[ITEM_COLS[i]] ])
        target == int(r["target_score"])
    IN  Violation(Max2(s["APPARENT_SADNESS"] - rs, rs - s["APPARENT_SADNESS"]) > 1,
                  "generating", "apparent_sadness_within_1_of_reported")
        \o (IF rs = 0
            THEN Violation(s["SUICIDAL_THOUGHTS"] > 0,
                           "generating", "suicidal_zero_when_no_sadness")
            ELSE Violation(s["SUICIDAL_THOUGHTS"] > max_suicide(rs),
                           "generating", "suicidal_thoughts_bounded_by_sadness"))
        \o (IF rs = 0
            THEN Violation(s["PESSIMISTIC_THOUGHTS"] > 0,
                           "generating", "pessimism_zero_when_no_sadness")
            ELSE Violation(s["PESSIMISTIC_THOUGHTS"] > Min2(6, rs + 2),
                           "generating", "pessimistic_thoughts_bounded_by_sadness"))
        \o (IF rs > 0
            THEN Violation(s["INABILITY_TO_FEEL"] < rs \div 2,
                           "generating", "anhedonia_floor_by_sadness")
            ELSE << >>)
        \o RangeViolations(s, ITEM_COLS)
        \o Violation(actual # target, "generating", "total_matches_target")

\* the checker has not been called
NotChecked == [ by |-> "none", list |-> << >> ]

\* clin_v = check_clinical_rules(row)
CheckClinicalRules ==
    /\ row # NoRow
    /\ violations = NotChecked
    /\ violations' = [ by |-> "clinical", list |-> check_clinical_rules(row) ]
    /\ UNCHANGED << sampler, pc, target_score, allocVars, hierVars, result, rngVars, first,
                    cfgVars, profiles, row >>

\* gen_v = check_generating_rules(row)
CheckGeneratingRules ==
    /\ row # NoRow
    /\ violations = NotChecked
    /\ violations' = [ by |-> "generating", list |-> check_generating_rules(row) ]
    /\ UNCHANGED << sampler, pc, target_score, allocVars, hierVars, result, rngVars, first,
                    cfgVars, profiles, row >>

----------------------------------------------------------------------------
(* Specifications *)

NoCall == [ sampler |-> "idle", target |-> 0, result |-> Pending, stream |-> << >> ]

\* the generators are constructed and no call has been made; r is the record
\* under check
ConstructedWith(m, r) ==
    /\ sampler = "idle"
    /\ pc = "idle"
    /\ target_score = 0
    /\ probs = [ i \in Slots |-> 1 ]
    /\ scores = [ i \in Slots |-> 0 ]
    /\ points = 0
    /\ assigned = 0
    /\ factor_scores = [ f \in Factors |-> 0 ]
    /\ continuous = ZeroProfile
    /\ discrete = ZeroProfile
    /\ current_sum = 0
    /\ iter = 0
    /\ rules_in = ZeroProfile
    /\ result = Pending
    /\ mode = m
    /\ stream = << >>
    /\ replay = << >>
    /\ first = NoCall
    /\ hier_self = HierarchicalMADRSGenerator
    /\ flat_self = FactorBasedMADRSGenerator
    /\ factor_cov = base_factor_corr
    /\ profiles = << >>
    /\ row = r
    /\ violations = NotChecked

\* the generators are constructed, no call has been made, nothing is under check
Constructed(m) == ConstructedWith(m, NoRow)

Init == Constructed("free")

Next ==
    \/ \E t \in Targets : CallGenerateFromMatrix(t)
    \/ MatrixAssign
    \/ MatrixReturn
    \/ \E t \in Targets : CallGenerate(t)
    \/ FlatAssign
    \/ FlatReturn
    \/ \E t \in Targets : CallGenerateProfile(t)
    \/ DrawFactors
    \/ DrawItems
    \/ AdjustStep
    \/ AdjustExit
    \/ ApplyRulesAndReturn

Spec == Init /\ [][Next]_vars

\* The two point-distribution samplers on their own.
NextAlloc ==
    \/ \E t \in Targets : CallGenerateFromMatrix(t)
    \/ MatrixAssign
    \/ MatrixReturn
    \/ \E t \in Targets : CallGenerate(t)
    \/ FlatAssign
    \/ FlatReturn

SpecAlloc == Init /\ [][NextAlloc]_vars

\* The adjustment loop on its own, entered with sampled values that put the
\* first m items at one level and the rest at another; the levels lie below
\* the scale, at its ends, half way between two scores, and above the scale.
AdjustLevels ==
    { -(OffScale * Unit), Floor * Unit, (5 * Unit) \div 2, Ceiling * Unit,
      (Ceiling + OffScale) * Unit }

AdjustInputs ==
    { [ k \in Items |-> IF \E i \in 1..m : item_keys[i] = k THEN hi ELSE lo ] :
        m \in 0..Len(item_keys), lo \in AdjustLevels, hi \in AdjustLevels }

\* the state at "current_sum = sum(discrete.values())", before the loop
AdjustEntry(c, t) ==
    /\ sampler = "hier"
    /\ pc = "adjust"
    /\ target_score = t
    /\ continuous = c
    /\ discrete = [ k \in Items |-> Discretize(c[k]) ]
    /\ current_sum = SumItems([ k \in Items |-> Discretize(c[k]) ])
    /\ iter = 0
    /\ probs = [ i \in Slots |-> 1 ]
    /\ scores = [ i \in Slots |-> 0 ]
    /\ points = 0
    /\ assigned = 0
    /\ factor_scores = [ f \in Factors |-> 0 ]
    /\ rules_in = ZeroProfile
    /\ result = Pending
    /\ mode = "free"
    /\ stream = << >>
    /\ replay = << >>
    /\ first = NoCall
    /\ hier_self = HierarchicalMADRSGenerator
    /\ flat_self = FactorBasedMADRSGenerator
    /\ factor_cov = severity_scaled_cov(base_factor_corr, t).cov
    /\ profiles = << >>
    /\ row = NoRow
    /\ violations = NotChecked

InitAdjust ==
    \E c \in AdjustInputs, t \in MinValidTarget..MaxValidTarget : AdjustEntry(c, t)

NextAdjust ==
    \/ AdjustStep
    \/ AdjustExit

SpecAdjust == InitAdjust /\ [][NextAdjust]_vars

\* The clinical-rule pass on its own: _apply_madrs_rules applied to a score
\* vector whose sum is the target, as the adjustment loop leaves it.  The six
\* items the rules read take every value, the four others a value of fills.
RuleInputs(fills) ==
    { [ k \in Items |->
          CASE k = "REPORTED_SADNESS" -> rs
            [] k = "INNER_TENSION" -> it
            [] k = "REDUCED_SLEEP" -> sl
            [] k = "INABILITY_TO_FEEL" -> fe
            [] k = "PESSIMISTIC_THOUGHTS" -> pt
            [] k = "SUICIDAL_THOUGHTS" -> st
            [] OTHER -> fill ] :
        rs \in Floor..Ceiling, it \in Floor..Ceiling, sl \in Floor..Ceiling,
        fe \in Floor..Ceiling, pt \in Floor..Ceiling, st \in Floor..Ceiling,
        fill \in fills }

\* the entry to the rule pass with the scores d; r is the record under check
RulePassEntry(d, r) ==
    /\ sampler = "rules"
    /\ pc = "rules"
    /\ discrete = d
    /\ target_score = SumItems(d)
    /\ current_sum = SumItems(d)
    /\ probs = [ i \in Slots |-> 1 ]
    /\ scores = [ i \in Slots |-> 0 ]
    /\ points = 0
    /\ assigned = 0
    /\ factor_scores = [ f \in Factors |-> 0 ]
    /\ continuous = [ k \in Items |-> d[k] * Unit ]
    /\ iter = 0
    /\ rules_in = ZeroProfile
    /\ result = Pending
    /\ mode = "free"
    /\ stream = << >>
    /\ replay = << >>
    /\ first = NoCall
    /\ hier_self = HierarchicalMADRSGenerator
    /\ flat_self = FactorBasedMADRSGenerator
    /\ factor_cov = base_factor_corr
    /\ profiles = << >>
    /\ row = r
    /\ violations = NotChecked

InitRules == \E d \in RuleInputs(0..MaxFill) : RulePassEntry(d, NoRow)

NextRules == ApplyRulesAndReturn

SpecRules == InitRules /\ [][NextRules]_vars

\* The rule pass and the checker's clinical predicates on the same scores:
\* every value of the six items the rules read, the other four at zero.
InitClinical == \E d \in RuleInputs({ 0 }) : RulePassEntry(d, PersistedRow(d, SumItems(d)))

NextClinical ==
    \/ ApplyRulesAndReturn
    \/ CheckClinicalRules

SpecClinical == InitClinical /\ [][NextClinical]_vars

\* The checker's generating rules on persisted records: the five items the
\* rules read take every value (reported sadness also values up to off away
\* from the scale), one more item is on or off the scale, and the recorded
\* target is at most slack away from the total.
GeneratingRows(off, slack) ==
    { PersistedRow(
          [ k \in Items |->
              CASE k = "REPORTED_SADNESS" -> rs
                [] k = "APPARENT_SADNESS" -> as
                [] k = "SUICIDAL_THOUGHTS" -> st
                [] k = "PESSIMISTIC_THOUGHTS" -> pt
                [] k = "INABILITY_TO_FEEL" -> fe
                [] k = "LASSITUDE" -> la
                [] OTHER -> 0 ],
          rs + as + st + pt + fe + la + dt) :
        rs \in (Floor - off)..(Ceiling + off),
        as \in Floor..Ceiling, st \in Floor..Ceiling, pt \in Floor..Ceiling,
        fe \in Floor..Ceiling, la \in { Floor, Ceiling + off },
        dt \in (-slack)..slack }

InitGenerating ==
    \E r \in GeneratingRows(OffScale, TargetSlack) : ConstructedWith("free", r)

NextGenerating == CheckGeneratingRules

SpecGenerating == InitGenerating /\ [][NextGenerating]_vars

\* A call made right after seeding, then the same call made again after
\* seeding with the same seed (random.seed(seed); np.random.seed(seed)).
Reseed ==
    /\ mode = "record" /\ pc = "done"
    /\ first' = [ sampler |-> sampler, target |-> target_score,
                  result |-> result, stream |-> stream ]
    /\ mode' = "replay"
    /\ replay' = stream
    /\ stream' = << >>
    /\ sampler' = "idle"
    /\ pc' = "idle"
    /\ result' = Pending
    /\ UNCHANGED << target_score, allocVars, hierVars,
                    cfgVars, profiles, checkVars >>

ReplayTargets == (-BelowRange)..MaxReplayTarget

InitReplay == Constructed("record")

NextReplay ==
    \/ \E t \in ReplayTargets : CallGenerateFromMatrix(t)
    \/ MatrixAssign
    \/ MatrixReturn
    \/ \E t \in ReplayTargets : CallGenerate(t)
    \/ FlatAssign
    \/ FlatReturn
    \/ \E t \in ReplayTargets : CallGenerateProfile(t)
    \/ DrawFactors
    \/ DrawItems
    \/ AdjustStep
    \/ AdjustExit
    \/ ApplyRulesAndReturn
    \/ Reseed

SpecReplay == InitReplay /\ [][NextReplay]_vars

\* The driver's loop: the call has returned, its locals are gone, the caller
\* keeps what it returned (the model keeps the most recent one) and goes on to
\* the next call on the same generator objects.
AppendProfile ==
    /\ pc = "done"
    /\ mode = "free"
    /\ profiles' = << result >>
    /\ sampler' = "idle"
    /\ pc' = "idle"
    /\ target_score' = 0
    /\ probs' = [ i \in Slots |-> 1 ]
    /\ scores' = [ i \in Slots |-> 0 ]
    /\ points' = 0
    /\ assigned' = 0
    /\ factor_scores' = [ f \in Factors |-> 0 ]
    /\ continuous' = ZeroProfile
    /\ discrete' = ZeroProfile
    /\ current_sum' = 0
    /\ iter' = 0
    /\ rules_in' = ZeroProfile
    /\ factor_cov' = base_factor_corr
    /\ result' = Pending
    /\ UNCHANGED << rngVars, first, cfgVars, checkVars >>

\* the targets of a sequence of calls: one below the range and the two lowest
CallTargets == { -1, 0, 1 }

NextCalls ==
    \/ \E t \in CallTargets : CallGenerateFromMatrix(t)
    \/ MatrixAssign
    \/ MatrixReturn
    \/ \E t \in CallTargets : CallGenerate(t)
    \/ FlatAssign
    \/ FlatReturn
    \/ \E t \in CallTargets : CallGenerateProfile(t)
    \/ DrawFactors
    \/ DrawItems
    \/ AdjustStep
    \/ AdjustExit
    \/ ApplyRulesAndReturn
    \/ AppendProfile

SpecCalls == Init /\ [][NextCalls]_vars

----------------------------------------------------------------------------
(* Properties *)

ScoreRange == Floor..Ceiling

InRange(d) == \A k \in Items : d[k] \in ScoreRange

Abs(x) == IF x < 0 THEN -x ELSE x

HierReturned == sampler = "hier" /\ pc = "done" /\ result.kind = "profile"
AllocReturned == sampler \in { "matrix", "flat" } /\ pc = "done"
RulesApplied == sampler \in { "hier", "rules" } /\ pc = "done" /\ result.kind = "profile"

\* C1: in all three samplers every item score is an integer in 0..6, in the
\* returned profile and in every intermediate state: the slots of the
\* point-distribution loops, the rounded and clamped scores, the scores after
\* every adjustment step, and the scores after each clinical-rule write.
C1_ScoresInRange ==
    /\ \A i \in Slots : scores[i] \in ScoreRange
    /\ InRange(discrete)
    /\ InRange(result.profile)
    /\ (sampler \in { "hier", "rules" } /\ pc = "rules") =>
          /\ InRange(MoodGate(discrete))
          /\ InRange(AnhedoniaLink(MoodGate(discrete)))
          /\ InRange(TensionSleepLink(AnhedoniaLink(MoodGate(discrete))))

\* C1 witness: a hierarchical run whose sample left the scale (so the clamp
\* acted), whose adjustment loop ran and whose rule pass rewrote a score.
C1_Witness ==
    /\ HierReturned
    /\ iter > 0
    /\ \E k \in Items : continuous[k] > Ceiling * Unit
    /\ \E k \in Items : continuous[k] < Floor
    /\ rules_in # discrete

\* C2: the correlation-matrix and flat factor-loading samplers return scores
\* that sum to exactly min(T, 60) for every target 0 <= T <= 60; T = 0 returns
\* the all-zero profile and T = 60 the profile with every item at 6.
C2_ExactSum ==
    (AllocReturned /\ 0 <= target_score /\ target_score <= 60) =>
        /\ result.kind = "profile"
        /\ SumItems(result.profile) = Min2(target_score, 60)
        /\ target_score = 0 => result.profile = [ k \in Items |-> 0 ]
        /\ target_score = 60 => result.profile = [ k \in Items |-> 6 ]

\* C2 witness: the correlation-matrix sampler returned for target 60 with
\* every item at 6.
C2_Witness ==
    /\ sampler = "matrix" /\ pc = "done"
    /\ target_score = 60
    /\ result.profile = [ k \in Items |-> 6 ]

\* C3: when the adjustment loop of generate_profile exits, before the
\* clinical-rule pass, the discrete scores sum to the target.
C3_SumAfterAdjust ==
    (sampler = "hier" /\ pc = "rules") =>
        /\ SumItems(discrete) = target_score
        /\ current_sum = target_score

\* C3 witness: the loop exits on target after at least ten corrections.
C3_Witness ==
    /\ sampler = "hier" /\ pc = "rules"
    /\ iter >= 10
    /\ SumItems(discrete) = target_score

ClinicallyPlausible(d) ==
    /\ d["REPORTED_SADNESS"] <= 1 =>
          d["SUICIDAL_THOUGHTS"] <= 2 /\ d["PESSIMISTIC_THOUGHTS"] <= 2
    /\ d["INABILITY_TO_FEEL"] >= 4 => d["REPORTED_SADNESS"] >= 2
    /\ d["INNER_TENSION"] >= 4 => d["REDUCED_SLEEP"] > 0

\* C4: every output of the clinical-rule pass satisfies: reported sadness <= 1
\* implies suicidal thoughts <= 2 and pessimistic thoughts <= 2; inability to
\* feel >= 4 implies reported sadness >= 2; inner tension >= 4 implies reduced
\* sleep > 0.
C4_ClinicalInvariants ==
    RulesApplied => ClinicallyPlausible(result.profile)

\* C4 witness: a pass whose input broke the first and the third implication.
C4_Witness ==
    /\ RulesApplied
    /\ rules_in["REPORTED_SADNESS"] <= 1
    /\ rules_in["INABILITY_TO_FEEL"] < 4
    /\ rules_in["PESSIMISTIC_THOUGHTS"] > 2
    /\ rules_in["INNER_TENSION"] >= 4
    /\ rules_in["REDUCED_SLEEP"] = 0

\* C5: the profile generate_profile returns, after the clinical-rule pass,
\* has a sum within 3 of the target.
C5_DriftAtMost3 ==
    HierReturned => Abs(SumItems(result.profile) - target_score) <= 3

\* C6: generate_profile returns no profile for a target outside 0..60 and a
\* profile for every target inside it: only a target inside the range gets
\* past the check, and from there the call can always take its next step
\* until it returns a profile.
C6_RangeCheck ==
    sampler = "hier" =>
        /\ pc = "done" =>
              IF 0 <= target_score /\ target_score <= 60
              THEN result.kind = "profile"
              ELSE result = None
        /\ pc # "done" =>
              /\ 0 <= target_score /\ target_score <= 60
              /\ result = Pending
              /\ ENABLED (DrawFactors \/ DrawItems \/ AdjustStep \/ AdjustExit
                            \/ ApplyRulesAndReturn)

\* C6 witness: the call with target -5 returned no profile.
C6_Witness ==
    /\ sampler = "hier" /\ pc = "done"
    /\ target_score = -5
    /\ result = None

\* the three rules of the pass, numbered in the order of the code
Rule(i, s) ==
    CASE i = 1 -> MoodGate(s)
      [] i = 2 -> AnhedoniaLink(s)
      [] i = 3 -> TensionSleepLink(s)

ApplyInOrder(o, s) == Rule(o[3], Rule(o[2], Rule(o[1], s)))

Orders == { o \in [ 1..3 -> 1..3 ] : { o[1], o[2], o[3] } = 1..3 }

\* position of rule i in the order o
PosIn(o, i) == CHOOSE j \in 1..3 : o[j] = i

\* the input on which mood gate and anhedonia link interfere
GateAndAnhedoniaClash(s) ==
    /\ s["REPORTED_SADNESS"] <= 1
    /\ s["INABILITY_TO_FEEL"] >= 4
    /\ (s["SUICIDAL_THOUGHTS"] > 2 \/ s["PESSIMISTIC_THOUGHTS"] > 2)

\* C7 (as claimed): the three rules applied in any order give the result of
\* the pass.
C7_OrderIndependent ==
    RulesApplied => \A o \in Orders : ApplyInOrder(o, rules_in) = discrete

\* C7 (amended): every order that applies the mood gate before the anhedonia
\* link gives the result of the pass, wherever the tension-sleep link stands;
\* an order that applies the anhedonia link first gives it exactly when the
\* input does not have reported sadness <= 1, inability to feel >= 4 and a
\* suicidal or pessimistic score above 2.
C7_OrderUpToGateFirst ==
    RulesApplied =>
        \A o \in Orders :
            IF PosIn(o, 1) < PosIn(o, 2)
            THEN ApplyInOrder(o, rules_in) = discrete
            ELSE (ApplyInOrder(o, rules_in) = discrete) <=> ~GateAndAnhedoniaClash(rules_in)

\* C7 witness: a pass in which all three rules fired.
C7_Witness ==
    /\ RulesApplied
    /\ GateAndAnhedoniaClash(rules_in)
    /\ rules_in["INNER_TENSION"] >= 4
    /\ rules_in["REDUCED_SLEEP"] = 0
    /\ discrete["REPORTED_SADNESS"] = 3
    /\ discrete["REDUCED_SLEEP"] = 2

\* C8: with reported sadness <= 1 on entry to the pass, suicidal thoughts and
\* pessimistic thoughts are each capped at 2: above 2 becomes 2, 2 or less is
\* left unchanged.
C8_CappedAtTwo ==
    (RulesApplied /\ rules_in["REPORTED_SADNESS"] <= 1) =>
        /\ discrete["SUICIDAL_THOUGHTS"] = Min2(rules_in["SUICIDAL_THOUGHTS"], 2)
        /\ discrete["PESSIMISTIC_THOUGHTS"] = Min2(rules_in["PESSIMISTIC_THOUGHTS"], 2)

\* C9: for a target T >= 0 the point-distribution loops of the two samplers
\* end after exactly min(T, 60) single-unit assignments and return a profile;
\* for T > 60 every item is at 6.  While the loop runs, the assignments made
\* and the points left add up to T, no more than min(T, 60) were made, and the
\* loop can either assign or return.
C9_AllocTerminates ==
    (sampler \in { "matrix", "flat" } /\ target_score >= 0) =>
        /\ assigned + points = target_score
        /\ assigned <= Min2(target_score, 60)
        /\ pc = "alloc" => ENABLED (MatrixAssign \/ MatrixReturn \/ FlatAssign \/ FlatReturn)
        /\ pc = "done" =>
              /\ assigned = Min2(target_score, 60)
              /\ result.kind = "profile"
              /\ target_score > 60 =>
                    /\ result.profile = [ k \in Items |-> 6 ]
                    /\ SumItems(result.profile) = 60

\* C9 witness: the flat sampler returned for a target above 60 after 60
\* assignments, every item at 6.
C9_Witness ==
    /\ sampler = "flat" /\ pc = "done"
    /\ target_score > 60
    /\ assigned = 60
    /\ result.profile = [ k \in Items |-> 6 ]

\* C10: a call repeated from the same random-stream state with the same
\* target consumes the same draws and returns the same profile (or the same
\* failure) as the first call, for each of the three samplers.
C10_Deterministic ==
    (mode = "replay" /\ pc = "done") =>
        /\ sampler = first.sampler
        /\ target_score = first.target
        /\ result = first.result
        /\ stream = first.stream
        /\ replay = << >>

\* C10 witness: a repeated hierarchical call that sampled, adjusted and was
\* corrected by the rule pass returned what the first call returned.
C10_Witness ==
    /\ mode = "replay" /\ pc = "done"
    /\ sampler = "hier"
    /\ iter > 0
    /\ rules_in # discrete
    /\ Len(stream) = 2
    /\ result = first.result

Reported(rule) == \E i \in 1..Len(violations.list) : violations.list[i].rule = rule

BothRan == RulesApplied /\ violations.by = "clinical"

\* C11: on the same integer item vector the rule pass changes the vector
\* exactly when check_clinical_rules reports a violation, and each of the four
\* predicates is reported exactly when the corresponding rule wrote its item:
\* mood_gate_suicidal with suicidal thoughts, mood_gate_pessimism with
\* pessimistic thoughts, anhedonia_requires_sadness with reported sadness,
\* tension_requires_sleep_disturbance with reduced sleep.
C11_CheckerMatchesCorrector ==
    BothRan =>
        /\ (discrete # rules_in) <=> (violations.list # << >>)
        /\ Reported("mood_gate_suicidal")
              <=> discrete["SUICIDAL_THOUGHTS"] # rules_in["SUICIDAL_THOUGHTS"]
        /\ Reported("mood_gate_pessimism")
              <=> discrete["PESSIMISTIC_THOUGHTS"] # rules_in["PESSIMISTIC_THOUGHTS"]
        /\ Reported("anhedonia_requires_sadness")
              <=> discrete["REPORTED_SADNESS"] # rules_in["REPORTED_SADNESS"]
        /\ Reported("tension_requires_sleep_disturbance")
              <=> discrete["REDUCED_SLEEP"] # rules_in["REDUCED_SLEEP"]
        /\ Len(violations.list) <= 4

\* C11 witness: the checker reported all four predicates on a vector and the
\* rule pass rewrote all four items of it.
C11_Witness ==
    /\ BothRan
    /\ ItemsOfRow(row) = rules_in
    /\ Len(violations.list) = 4
    /\ discrete["SUICIDAL_THOUGHTS"] = 1 /\ rules_in["SUICIDAL_THOUGHTS"] = 6
    /\ discrete["PESSIMISTIC_THOUGHTS"] = 2 /\ rules_in["PESSIMISTIC_THOUGHTS"] = 6
    /\ discrete["REPORTED_SADNESS"] = 3 /\ rules_in["REPORTED_SADNESS"] = 0
    /\ discrete["REDUCED_SLEEP"] = 2 /\ rules_in["REDUCED_SLEEP"] = 0

GeneratingChecked == violations.by = "generating"

\* the rule-based contract as C12 words it
ContractAsClaimed(s, target) ==
    LET rs == s["REPORTED_SADNESS"]
    IN  /\ Abs(s["APPARENT_SADNESS"] - rs) <= 1
        /\ s["SUICIDAL_THOUGHTS"] <=
              (IF rs = 0 THEN 1 ELSE IF rs <= 3 THEN Min2(3, rs + 1) ELSE 6)
        /\ IF rs = 0 THEN s["PESSIMISTIC_THOUGHTS"] = 0
                     ELSE s["PESSIMISTIC_THOUGHTS"] <= Min2(6, rs + 2)
        /\ s["INABILITY_TO_FEEL"] >= rs \div 2
        /\ \A k \in Items : s[k] \in 0..6
        /\ SumItems(s) = target

\* the contract with the suicidal-thoughts bound the checker enforces
ContractAsChecked(s, target) ==
    LET rs == s["REPORTED_SADNESS"]
    IN  /\ Abs(s["APPARENT_SADNESS"] - rs) <= 1
        /\ s["SUICIDAL_THOUGHTS"] <=
              (CASE rs = 0 -> 0
                 [] rs = 1 -> 1
                 [] rs \in 2..3 -> Min2(3, rs + 1)
                 [] OTHER -> 6)
        /\ IF rs = 0 THEN s["PESSIMISTIC_THOUGHTS"] = 0
                     ELSE s["PESSIMISTIC_THOUGHTS"] <= Min2(6, rs + 2)
        /\ s["INABILITY_TO_FEEL"] >= rs \div 2
        /\ \A k \in Items : s[k] \in 0..6
        /\ SumItems(s) = target

\* C12 (as claimed): check_generating_rules returns an empty list exactly when
\* the record satisfies: apparent sadness within 1 of reported sadness;
\* suicidal thoughts <= 1 if reported sadness is 0, else <= min(3, reported
\* sadness + 1) if reported sadness <= 3, else <= 6; pessimistic thoughts 0 if
\* reported sadness is 0, else <= min(6, reported sadness + 2); inability to
\* feel >= reported sadness // 2; all items in 0..6; sum equal to the target.
C12_EmptyIffContract ==
    GeneratingChecked =>
        ((violations.list = << >>)
            <=> ContractAsClaimed(ItemsOfRow(row), int(row["target_score"])))

\* C12 (amended): the same with the suicidal-thoughts bound 0 if reported
\* sadness is 0, 1 if it is 1, min(3, reported sadness + 1) if it is 2 or 3,
\* and 6 above.
C12_EmptyIffCheckedContract ==
    GeneratingChecked =>
        ((violations.list = << >>)
            <=> ContractAsChecked(ItemsOfRow(row), int(row["target_score"])))

\* C12 witness: a record with positive sadness that satisfies the contract
\* at its bounds was checked and nothing was reported.
C12_Witness ==
    /\ GeneratingChecked
    /\ violations.list = << >>
    /\ ItemsOfRow(row)["REPORTED_SADNESS"] = 2
    /\ ItemsOfRow(row)["APPARENT_SADNESS"] = 3
    /\ ItemsOfRow(row)["SUICIDAL_THOUGHTS"] = 3
    /\ ItemsOfRow(row)["PESSIMISTIC_THOUGHTS"] = 4
    /\ ItemsOfRow(row)["INABILITY_TO_FEEL"] = 1

\* C13: after any sequence of generate / generate_profile calls with valid
\* and invalid targets the generators' fields equal what the constructors set
\* (loadings, the two factor-correlation matrices, the item-to-factor map, the
\* residual SDs, the offsets), and a profile a call returned is not changed
\* by any step of a later call.
C13_ConfigAndProfilesKept ==
    /\ [](/\ hier_self = HierarchicalMADRSGenerator
          /\ hier_self.base_factor_corr = base_factor_corr
          /\ flat_self = FactorBasedMADRSGenerator)
    /\ [][pc # "done" => profiles' = profiles]_vars

\* C13 witness: a hierarchical call that scaled the covariance has returned
\* a profile different from the one the previous call returned.
C13_Witness ==
    /\ Len(profiles) = 1
    /\ profiles[1].kind = "profile"
    /\ sampler = "hier" /\ pc = "done"
    /\ result.kind = "profile"
    /\ result # profiles[1]
    /\ factor_cov # hier_self.base_factor_corr

\* position of item k in item_keys
KeyPos(k) == CHOOSE i \in 1..Len(item_keys) : item_keys[i] = k

GapUp(k) == continuous[k] - discrete[k] * Unit
GapDown(k) == discrete[k] * Unit - continuous[k]

\* item k is the one an upward (downward) correction must pick
PickedUp(k) ==
    /\ discrete[k] < 6
    /\ \A c \in Items : discrete[c] < 6 => GapUp(c) <= GapUp(k)
    /\ \A c \in Items : (discrete[c] < 6 /\ GapUp(c) = GapUp(k) /\ c # k) => KeyPos(k) < KeyPos(c)

PickedDown(k) ==
    /\ discrete[k] > 0
    /\ \A c \in Items : discrete[c] > 0 => GapDown(c) <= GapDown(k)
    /\ \A c \in Items : (discrete[c] > 0 /\ GapDown(c) = GapDown(k) /\ c # k) => KeyPos(k) < KeyPos(c)

\* C14: an iteration of the adjustment loop with sum # T changes exactly one
\* item, by exactly 1.  Below the target it increments, among the items below
\* 6, one with the largest continuous - discrete; above the target it
\* decrements, among the items above 0, one with the largest discrete -
\* continuous; of several items with the largest gap the first in item_keys
\* is taken.
C14_LargestGapFirst ==
    [][AdjustStep =>
          /\ current_sum # target_score
          /\ \E k \in Items :
                /\ \A j \in Items \ { k } : discrete'[j] = discrete[j]
                /\ IF current_sum < target_score
                   THEN discrete'[k] = discrete[k] + 1 /\ PickedUp(k)
                   ELSE discrete'[k] = discrete[k] - 1 /\ PickedDown(k)]_vars

\* C14 witness: after at least one correction the loop is still below the
\* target and two candidates tie for the largest gap.
C14_Witness ==
    /\ sampler = "hier" /\ pc = "adjust"
    /\ iter > 0
    /\ current_sum < target_score
    /\ \E k \in Items, c \in Items :
          /\ PickedUp(k) /\ c # k
          /\ discrete[c] < 6 /\ GapUp(c) = GapUp(k)

Allocating == sampler \in { "matrix", "flat" } /\ pc = "alloc"

\* the slots with capacity left, and their total weight
BelowCeiling == { i \in Slots : scores[i] < 6 }

RECURSIVE WeightOfSet(_)
WeightOfSet(S) ==
    IF S = {} THEN 0
    ELSE LET i == CHOOSE i \in S : TRUE IN probs[i] + WeightOfSet(S \ { i })

\* the slot the loop body of generate_from_matrix (of generate) increments
\* for the uniform draw u
MatrixPick(u) == Choice(MatrixValid(scores), Renormalize(probs, MatrixValid(scores)), u)
FlatPick(u) == Choice(FlatValid(scores), Renormalize(probs, FlatValid(scores)), u)

\* C15: from the same probability vector, scores and budget the loops of the
\* two samplers do the same thing: they stop under the same condition, they
\* restrict to the same slots (exactly those below 6), renormalise over
\* exactly those slots, and pick the same slot for the same random draw; and
\* every assignment of either loop adds one unit to one slot that was below 6,
\* the slot both loops pick for the draw, and takes one point from the budget.
C15_SameProcedure ==
    /\ [](Allocating =>
            LET mv == MatrixValid(scores)
                fv == FlatValid(scores)
                den == WeightOfSet(BelowCeiling)
            IN  /\ (points > 0 /\ mv # << >>) <=> (points > 0 /\ fv # << >>)
                /\ mv = fv
                /\ { fv[j] : j \in 1..Len(fv) } = BelowCeiling
                /\ { mv[j] : j \in 1..Len(mv) } = BelowCeiling
                /\ Renormalize(probs, fv).den = den
                /\ Renormalize(probs, mv).den = den
                /\ \A j \in 1..Len(fv) : Renormalize(probs, fv).num[j] = probs[fv[j]]
                /\ \A j \in 1..Len(mv) : Renormalize(probs, mv).num[j] = probs[mv[j]]
                /\ BelowCeiling # {} =>
                      \A u \in UniformDraws(den) :
                          /\ MatrixPick(u) = FlatPick(u)
                          /\ MatrixPick(u) \in BelowCeiling)
    /\ [][(MatrixAssign \/ FlatAssign) =>
            /\ points' = points - 1
            /\ \E i \in BelowCeiling :
                  /\ scores'[i] = scores[i] + 1
                  /\ \A j \in Slots \ { i } : scores'[j] = scores[j]
                  /\ \E u \in UniformDraws(WeightOfSet(BelowCeiling)) :
                        i = MatrixPick(u) /\ i = FlatPick(u)]_vars

\* C15 witness: the flat sampler's loop is running with points left, some
\* slots already at 6 and some below it, under unequal weights.
C15_Witness ==
    /\ sampler = "flat" /\ pc = "alloc"
    /\ points > 0
    /\ assigned >= 20
    /\ \E i \in Slots : scores[i] = 6
    /\ \E i \in Slots : scores[i] < 6
    /\ \E i \in Slots : probs[i] # probs[1]

\* the call of generate_profile under way has computed its covariance matrix
CovComputed == sampler = "hier" /\ pc \in { "draw_items", "adjust", "rules" }

Identity == [ i \in Factors |-> [ j \in Factors |-> IF i = j THEN CorrUnit ELSE 0 ] ]

\* C16: for every target T in 0..60 the matrix _severity_scaled_cov returns
\* has off-diagonal entries equal to the base entry times min(1, T/30) and
\* diagonal entries exactly 1; it is the identity at T = 0, the base
\* factor-correlation matrix for every T >= 30, and symmetric.
C16_ScaledCovariance ==
    CovComputed =>
        /\ target_score \in 0..60
        /\ DOMAIN factor_cov = Factors
        /\ \A i \in Factors : DOMAIN factor_cov[i] = Factors
        /\ \A i \in Factors, j \in Factors :
              /\ i # j => factor_cov[i][j] * 30
                             = base_factor_corr[i][j] * Min2(30, target_score)
              /\ i = j => factor_cov[i][j] = CorrUnit
              /\ factor_cov[i][j] = factor_cov[j][i]
        /\ target_score = 0 => factor_cov = Identity
        /\ target_score >= 30 => factor_cov = base_factor_corr

\* C16 witness: at target 15 the off-diagonal entries are half the base
\* entries and the diagonal is 1.
C16_Witness ==
    /\ CovComputed
    /\ target_score = 15
    /\ factor_cov[0][1] = 30
    /\ factor_cov[2][2] = CorrUnit
    /\ hier_self.base_factor_corr[0][1] = 60

\* the sum of the scores with which the adjustment loop was entered
EntrySum == SumItems([ k \in Items |-> Discretize(continuous[k]) ])

\* C17: for every target T in 0..60 and every entry vector in 0..6 with sum
\* s0 the adjustment loop runs exactly |s0 - T| <= 60 iterations; every
\* iteration brings the sum one closer to T and never past it; the loop never
\* uses up range(100) and never finds its candidate list empty.
C17_LoopIterations ==
    (sampler = "hier" /\ pc \in { "adjust", "rules" }) =>
        /\ current_sum = SumItems(discrete)
        /\ Abs(EntrySum - target_score) <= 60
        /\ iter + Abs(current_sum - target_score) = Abs(EntrySum - target_score)
        /\ EntrySum <= target_score => current_sum <= target_score
        /\ EntrySum >= target_score => current_sum >= target_score
        /\ iter < AdjustCap
        /\ current_sum < target_score => CandsUp(discrete) # << >>
        /\ current_sum > target_score => CandsDown(discrete) # << >>
        /\ pc = "rules" =>
              /\ current_sum = target_score
              /\ iter = Abs(EntrySum - target_score)

\* C17 witness: entered with every item at 0 and target 60, the loop has
\* ended after 60 iterations.
C17_Witness ==
    /\ sampler = "hier" /\ pc = "rules"
    /\ EntrySum = 0
    /\ target_score = 60
    /\ iter = 60
    /\ current_sum = 60

\* what the pass added to the total
Drift == SumItems(discrete) - SumItems(rules_in)

\* inputs on which only the mood gate (only the two links) can fire
LowestDriftInput ==
    [ ZeroProfile EXCEPT !["SUICIDAL_THOUGHTS"] = 6, !["PESSIMISTIC_THOUGHTS"] = 6 ]
HighestDriftInput ==
    [ ZeroProfile EXCEPT !["INABILITY_TO_FEEL"] = 4, !["INNER_TENSION"] = 4 ]

C19_RulePassFrame ==
    RulesApplied =>
        /\ \A k \in { "APPARENT_SADNESS", "INNER_TENSION", "REDUCED_APPETITE",
                       "CONCENTRATION_DIFFICULTIES", "LASSITUDE", "INABILITY_TO_FEEL" } :
              discrete[k] = rules_in[k]
        /\ discrete["SUICIDAL_THOUGHTS"] <= rules_in["SUICIDAL_THOUGHTS"]
        /\ discrete["PESSIMISTIC_THOUGHTS"] <= rules_in["PESSIMISTIC_THOUGHTS"]
        /\ discrete["REPORTED_SADNESS"] >= rules_in["REPORTED_SADNESS"]
        /\ discrete["REDUCED_SLEEP"] >= rules_in["REDUCED_SLEEP"]

\* C19 witness: a pass that lowered suicidal and pessimistic thoughts, raised
\* reported sadness and reduced sleep, and left the six other items, not all
\* zero, as they were.
C19_Witness ==
    /\ RulesApplied
    /\ discrete["SUICIDAL_THOUGHTS"] < rules_in["SUICIDAL_THOUGHTS"]
    /\ discrete["PESSIMISTIC_THOUGHTS"] < rules_in["PESSIMISTIC_THOUGHTS"]
    /\ discrete["REPORTED_SADNESS"] > rules_in["REPORTED_SADNESS"]
    /\ discrete["REDUCED_SLEEP"] > rules_in["REDUCED_SLEEP"]
    /\ rules_in["LASSITUDE"] = 1
    /\ discrete["INABILITY_TO_FEEL"] = 5

\* C20: the pass is idempotent: a second pass over the vector a pass
\* produced changes nothing.
C20_Idempotent ==
    RulesApplied =>
        /\ discrete = apply_madrs_rules(rules_in)
        /\ apply_madrs_rules(discrete) = discrete
        /\ apply_madrs_rules(result.profile) = result.profile

\* C20 witness: a first pass in which the mood gate and the anhedonia link
\* both fired, so the second pass starts from reported sadness 3.
C20_Witness ==
    /\ RulesApplied
    /\ rules_in["REPORTED_SADNESS"] = 1
    /\ discrete["REPORTED_SADNESS"] = 3
    /\ rules_in["SUICIDAL_THOUGHTS"] = 4
    /\ discrete["SUICIDAL_THOUGHTS"] = 1
    /\ apply_madrs_rules(discrete) = discrete

====
